---- MODULE Spec2Model ----
(***************************************************************************)
(* Max segment tree of segment_tree.py: TreeNode (update, query, inorder)  *)
(* and SegmentTree (__init__, build_tree, update, query, inorder, draw).   *)
(* Nodes live in an arena: `nodes` maps a node id to the node's fields,    *)
(* ids are handed out in the order the TreeNode constructors run, and a    *)
(* child link is an id or None.                                            *)
(***************************************************************************)
EXTENDS Integers, Sequences, FiniteSets, TLC

VARIABLES labels, nodes, root, pc, op, err, ret, key_list, A

vars == <<labels, nodes, root, pc, op, err, ret, key_list, A>>

\* ---- bounds of the model ----
MaxLen == 4
MaxVal == 2
RecursionLimit == 6

\* ---- program constants ----
None == -1
selected_idx == -1
branch_idx == -1

Vals == 0..MaxVal
LabelPool == <<"a", "b", "c", "d", "e", "f", "g", "h">>
NoError == ""

\* the arguments the callers of the public methods are drawn from: every
\* index of the array and one position past either end for a query bound,
\* two positions past either end for an update index
IdxArgs(n) == -1..n
UpdateArgs(n) == -2..(n + 1)
Size == Len(labels)
ValidIdx(idx) == 0 <= idx /\ idx < Size
ValidRange(s, e) == 0 <= s /\ s <= e /\ e < Size

\* ---- TreeNode ----
TreeNode(start, end, label, value, is_selected, branch) ==
    [start |-> start, end |-> end, label |-> label, value |-> value,
     is_selected |-> is_selected, branch |-> branch,
     left |-> None, right |-> None, inorder_pos |-> None]

GoesLeftMut(idx, mid) == idx < mid
GoesLeftFlip(idx, mid) == idx > mid
GoesLeft(idx, mid) == idx <= mid

RecomputeMut(rec, lv, rv) ==
    [rec EXCEPT !.value = IF lv > rv THEN lv ELSE rv,
                !.label = IF lv > rv THEN "<-" ELSE "->"]
RecomputeLeft(rec, lv, rv) == [rec EXCEPT !.value = lv]
Recompute(rec, lv, rv) ==
    [rec EXCEPT !.value = IF lv > rv THEN lv ELSE rv]

RECURSIVE TreeNode_update(_, _, _, _)
TreeNode_update(nd, n, idx, value) ==
    IF n = None THEN [err |-> "AttributeError", nodes |-> nd]
    ELSE IF nd[n].start = nd[n].end
    THEN [err |-> NoError, nodes |-> [nd EXCEPT ![n].value = value]]
    ELSE LET mid == (nd[n].start + nd[n].end) \div 2
             sub == IF GoesLeft(idx, mid)
                    THEN TreeNode_update(nd, nd[n].left, idx, value)
                    ELSE TreeNode_update(nd, nd[n].right, idx, value)
         IN  IF sub.err # NoError THEN sub
             ELSE LET nd2 == sub.nodes
                  IN  [err |-> NoError,
                       nodes |-> [nd2 EXCEPT ![n] =
                           Recompute(nd2[n], nd2[nd2[n].left].value,
                                     nd2[nd2[n].right].value)]]

QueryMaxMut(l, r) == IF l < r THEN l ELSE r
QueryMax(l, r) == IF l >= r THEN l ELSE r

RECURSIVE TreeNode_query(_, _, _, _)
TreeNode_query(nd, n, start, end) ==
    IF n = None THEN [err |-> "AttributeError", val |-> <<>>]
    ELSE IF nd[n].start = start /\ nd[n].end = end
    THEN [err |-> NoError, val |-> <<nd[n].value>>]
    ELSE LET mid == (nd[n].start + nd[n].end) \div 2
         IN  IF end <= mid THEN TreeNode_query(nd, nd[n].left, start, end)
             ELSE IF start > mid THEN TreeNode_query(nd, nd[n].right, start, end)
             ELSE LET left_max == TreeNode_query(nd, nd[n].left, start, mid)
                  IN  IF left_max.err # NoError THEN left_max
                      ELSE LET right_max == TreeNode_query(nd, nd[n].right, mid + 1, end)
                           IN  IF right_max.err # NoError THEN right_max
                               ELSE [err |-> NoError,
                                     val |-> <<QueryMax(left_max.val[1], right_max.val[1])>>]

SetPosMut(rec, p) == [rec EXCEPT !.inorder_pos = p, !.value = p]
SetPos(rec, p) == [rec EXCEPT !.inorder_pos = p]

IncrMut(num) == num
Incr(num) == num + 1

\* num is the one-element list of the source, threaded through the walk
RECURSIVE TreeNode_inorder(_, _, _, _)
TreeNode_inorder(nd, n, num, keys) ==
    LET l == IF nd[n].left # None
             THEN TreeNode_inorder(nd, nd[n].left, num, keys)
             ELSE [nodes |-> nd, num |-> num, key_list |-> keys]
        nd2 == [l.nodes EXCEPT ![n] = SetPos(l.nodes[n], l.num)]
        keys2 == Append(l.key_list, nd[n].label)
        num2 == Incr(l.num)
    IN  IF nd[n].right # None
        THEN TreeNode_inorder(nd2, nd[n].right, num2, keys2)
        ELSE [nodes |-> nd2, num |-> num2, key_list |-> keys2]

\* ---- SegmentTree ----
BuildMaxMut(l, r) == IF l > r THEN r ELSE l
BuildMax(l, r) == IF l > r THEN l ELSE r

\* nid is the id the next TreeNode constructed gets; depth is the depth of
\* the Python call stack, which the interpreter cuts at its recursion limit
RECURSIVE build_tree(_, _, _, _, _, _)
build_tree(vs, ls, start, end, nid, depth) ==
    IF depth > RecursionLimit
    THEN [err |-> "RecursionError", nodes |-> <<>>, root |-> None, next |-> nid]
    ELSE IF start = end
    THEN [err |-> NoError,
          nodes |-> (nid :> TreeNode(start, end, ls[start + 1], vs[start + 1],
                                     selected_idx = start, branch_idx = start)),
          root |-> nid, next |-> nid + 1]
    ELSE LET mid == (start + end) \div 2
             l == build_tree(vs, ls, start, mid, nid + 1, depth + 1)
         IN  IF l.err # NoError THEN l
             ELSE LET r == build_tree(vs, ls, mid + 1, end, l.next, depth + 1)
                  IN  IF r.err # NoError THEN r
                      ELSE LET lrec == l.nodes[l.root]
                               rrec == r.nodes[r.root]
                               me == [TreeNode(start, end, "", 0, FALSE, FALSE)
                                        EXCEPT !.left = l.root, !.right = r.root,
                                               !.value = BuildMax(lrec.value, rrec.value),
                                               !.branch = rrec.branch \/ lrec.branch]
                           IN  [err |-> NoError,
                                nodes |-> (nid :> me) @@ l.nodes @@ r.nodes,
                                root |-> nid, next |-> r.next]

\* The state __init__ leaves for the arrays values and labels. build_tree is
\* the only reader of self.values, so the array is not carried as a variable
\* of its own: A starts as it.
\* A is the array the documented contract says the tree holds, wrapped in a
\* one-element sequence; it is << >> when the contract names none (nothing
\* was built, or an update was run with an index the contract excludes).
SegmentTree_init(vs, ls) ==
    LET b == build_tree(vs, ls, 0, Len(vs) - 1, 0, 1)
    IN  /\ labels = ls
        /\ nodes = b.nodes
        /\ root = b.root
        /\ err = b.err
        /\ pc = IF b.err = NoError THEN "ready" ELSE "failed"
        /\ A = IF b.err = NoError THEN <<vs>> ELSE <<>>
        /\ op = "init"
        /\ ret = <<>>
        /\ key_list = <<>>

Init ==
    \E n \in 0..MaxLen : \E vs \in [1..n -> Vals] :
        SegmentTree_init(vs, SubSeq(LabelPool, 1, n))

SegmentTree_update(idx, value) ==
    /\ pc = "ready"
    /\ op' = "update"
    /\ A' = IF A # <<>> /\ ValidIdx(idx)
            THEN <<[A[1] EXCEPT ![idx + 1] = value]>>
            ELSE <<>>
    /\ LET u == TreeNode_update(nodes, root, idx, value)
       IN  /\ nodes' = u.nodes
           /\ err' = u.err
    /\ ret' = <<>>
    /\ key_list' = <<>>
    /\ UNCHANGED <<labels, root, pc>>

SegmentTree_query(start, end) ==
    /\ pc = "ready"
    /\ op' = "query"
    /\ LET q == TreeNode_query(nodes, root, start, end)
       IN  /\ err' = q.err
           /\ ret' = q.val
    /\ key_list' = <<>>
    /\ UNCHANGED <<labels, nodes, root, pc, A>>

Walk(nd, rt) ==
    IF rt # None THEN TreeNode_inorder(nd, rt, 0, <<>>)
    ELSE [nodes |-> nd, num |-> 0, key_list |-> <<>>]

SegmentTree_inorder ==
    /\ pc = "ready"
    /\ op' = "inorder"
    /\ LET w == Walk(nodes, root)
       IN  /\ nodes' = w.nodes
           /\ key_list' = w.key_list
    /\ err' = NoError
    /\ ret' = <<>>
    /\ UNCHANGED <<labels, root, pc, A>>

\* draw() runs inorder() and drops its list; the plotting that follows reads
\* the nodes and writes nothing
SegmentTree_draw ==
    /\ pc = "ready"
    /\ op' = "draw"
    /\ nodes' = Walk(nodes, root).nodes
    /\ err' = NoError
    /\ ret' = <<>>
    /\ key_list' = <<>>
    /\ UNCHANGED <<labels, root, pc, A>>

Next ==
    \/ \E idx \in UpdateArgs(Size), value \in Vals : SegmentTree_update(idx, value)
    \/ \E s \in IdxArgs(Size), e \in IdxArgs(Size) : SegmentTree_query(s, e)
    \/ SegmentTree_inorder
    \/ SegmentTree_draw

Spec == Init /\ [][Next]_vars

\* ---- vocabulary of the properties ----
Ok(v) == [err |-> NoError, val |-> <<v>>]
query(nd, s, e) == TreeNode_query(nd, root, s, e)
Ranges == {r \in (0..(Size - 1)) \X (0..(Size - 1)) : r[1] <= r[2]}
Max2(a, b) == IF a >= b THEN a ELSE b
MaxOf(arr, s, e) ==
    CHOOSE m \in {arr[i + 1] : i \in s..e} : \A i \in s..e : arr[i + 1] <= m
IsLeaf(rec) == rec.start = rec.end
Covers(rec, idx) == rec.start <= idx /\ idx <= rec.end
LeafOf(nd, i) == CHOOSE n \in DOMAIN nd : nd[n].start = i /\ nd[n].end = i
LeafArray(nd) == [i \in 1..Size |-> nd[LeafOf(nd, i - 1)].value]
BuiltOk == pc = "ready"
InContract == pc = "ready" /\ A # <<>>

RECURSIVE Subtree(_, _)
Subtree(nd, n) ==
    IF n = None THEN {}
    ELSE {n} \cup Subtree(nd, nd[n].left) \cup Subtree(nd, nd[n].right)

\* every internal node has both children, splits its range at the floor
\* midpoint and holds the larger of its children's values
Aggregated(nd) ==
    \A n \in DOMAIN nd :
        ~IsLeaf(nd[n]) =>
            /\ nd[n].left \in DOMAIN nd
            /\ nd[n].right \in DOMAIN nd
            /\ LET mid == (nd[n].start + nd[n].end) \div 2
                   l == nd[nd[n].left]
                   r == nd[nd[n].right]
               IN  /\ l.start = nd[n].start /\ l.end = mid
                   /\ r.start = mid + 1 /\ r.end = nd[n].end
                   /\ nd[n].value = Max2(l.value, r.value)

LeavesHold(nd, arr) ==
    /\ \A i \in 0..(Size - 1) :
          \E n \in DOMAIN nd : IsLeaf(nd[n]) /\ nd[n].start = i
    /\ \A n \in DOMAIN nd :
          IsLeaf(nd[n]) =>
              /\ nd[n].start \in 0..(Size - 1)
              /\ nd[n].value = arr[nd[n].start + 1]
              /\ nd[n].left = None /\ nd[n].right = None

\* C1: a valid update(idx, v), run after any sequence of valid updates that
\* left the array A, makes query(idx, idx) = v and every range holding idx
\* answer the maximum of A with A[idx] replaced by v, while every range that
\* does not hold idx answers what it answered before.
C1_UpdateCorrect ==
    [][\A idx \in UpdateArgs(Size), v \in Vals :
          (InContract /\ ValidIdx(idx) /\ SegmentTree_update(idx, v)) =>
              LET B == [A[1] EXCEPT ![idx + 1] = v]
              IN  /\ err' = NoError
                  /\ query(nodes', idx, idx) = Ok(v)
                  /\ \A r \in Ranges :
                        IF r[1] <= idx /\ idx <= r[2]
                        THEN query(nodes', r[1], r[2]) = Ok(MaxOf(B, r[1], r[2]))
                        ELSE query(nodes', r[1], r[2]) = query(nodes, r[1], r[2])]_vars

C1_Witness ==
    /\ InContract /\ op = "update" /\ Size >= 3
    /\ A[1][2] > A[1][1] /\ A[1][2] > A[1][3]
    /\ query(nodes, 1, 1) = Ok(A[1][2])
    /\ query(nodes, 0, 2) = Ok(A[1][2])

\* C2: right after construction from a non-empty array (A, then, is that
\* array), query(0, len - 1) is the maximum of the array; a one-element tree
\* answers its element.
C2_BuildCorrect ==
    (op = "init" /\ Size >= 1) =>
        /\ pc = "ready" /\ err = NoError
        /\ A # <<>>
        /\ query(nodes, 0, Size - 1) = Ok(MaxOf(A[1], 0, Size - 1))
        /\ Size = 1 => query(nodes, 0, 0) = Ok(A[1][1])

C2_Witness ==
    /\ op = "init" /\ pc = "ready" /\ Size >= 3
    /\ A[1][2] > A[1][1] /\ A[1][2] > A[1][3]
    /\ query(nodes, 0, Size - 1).val[1] >= A[1][2]

\* C3: an update with idx outside 0..size-1 fails with IndexOutOfRange and a
\* query with start > end or a bound outside 0..size-1 fails with
\* InvalidRange, and either leaves every node as it was.
C3_BoundsRejected ==
    [][/\ \A idx \in UpdateArgs(Size), v \in Vals :
             (~ValidIdx(idx) /\ SegmentTree_update(idx, v)) =>
                 (err' = "IndexOutOfRange" /\ nodes' = nodes)
       /\ \A s \in IdxArgs(Size), e \in IdxArgs(Size) :
             (~ValidRange(s, e) /\ SegmentTree_query(s, e)) =>
                 (err' = "InvalidRange" /\ nodes' = nodes)]_vars

\* C4: after construction and after any sequence of valid updates, every
\* internal node holds the larger of its children's values, its children
\* split its range at the floor midpoint, and every leaf holds the current
\* array value at its index.
C4_AggregationInvariant ==
    InContract => (Aggregated(nodes) /\ LeavesHold(nodes, A[1]))

C4_Witness ==
    /\ InContract /\ op = "update" /\ Size >= 3
    /\ nodes[root].value < MaxVal
    /\ \E n \in DOMAIN nodes : nodes[n].value < nodes[root].value

\* C5: construction from arrays of length 0 ends with the error EmptyInput.
C5_EmptyRejected ==
    (op = "init" /\ Size = 0) => (pc = "failed" /\ err = "EmptyInput")

\* C6: in every state of a built tree, splitting a valid range at any point
\* m gives query(s, e) = max(query(s, m), query(m + 1, e)).
C6_RangeDecomposition ==
    BuiltOk =>
        \A r \in Ranges : \A m \in r[1]..(r[2] - 1) :
            LET whole == query(nodes, r[1], r[2])
                lo == query(nodes, r[1], m)
                hi == query(nodes, m + 1, r[2])
            IN  /\ whole.err = NoError /\ lo.err = NoError /\ hi.err = NoError
                /\ whole.val[1] = Max2(lo.val[1], hi.val[1])

\* a split of the root's range off the root's own midpoint, its two halves
\* answering differently
C6_Witness ==
    /\ BuiltOk /\ op = "update" /\ Size >= 3
    /\ \E m \in 0..(Size - 2) :
          /\ m # (nodes[root].start + nodes[root].end) \div 2
          /\ query(nodes, 0, m).val[1] > query(nodes, m + 1, Size - 1).val[1]

\* the positions an in-order walk leaves: 0, 1, 2, ... with a node after its
\* whole left subtree and before its whole right subtree, the list holding
\* each node's label at the node's position
InOrderLaidOut(nd, keys) ==
    /\ Len(keys) = Cardinality(DOMAIN nd)
    /\ {nd[n].inorder_pos : n \in DOMAIN nd} = 0..(Cardinality(DOMAIN nd) - 1)
    /\ \A n \in DOMAIN nd :
          /\ keys[nd[n].inorder_pos + 1] = nd[n].label
          /\ \A m \in Subtree(nd, nd[n].left) : nd[m].inorder_pos < nd[n].inorder_pos
          /\ \A m \in Subtree(nd, nd[n].right) : nd[m].inorder_pos > nd[n].inorder_pos
    /\ \A i \in 1..(Size - 1) :
          nd[LeafOf(nd, i - 1)].inorder_pos < nd[LeafOf(nd, i)].inorder_pos

\* C7: every inorder() numbers the nodes from 0 in in-order, leaves left to
\* right by index, and an inorder() that follows an inorder() returns the
\* same list and leaves every node the position it had.
C7_IdempotentTraversal ==
    [][SegmentTree_inorder =>
          /\ InOrderLaidOut(nodes', key_list')
          /\ op = "inorder" => (key_list' = key_list /\ nodes' = nodes)]_vars

C7_Witness ==
    /\ op = "inorder" /\ Size >= 3
    /\ nodes[root].inorder_pos > 0
    /\ Len(key_list) = 2 * Size - 1
    /\ key_list[1] = "a" /\ key_list[Len(key_list)] = labels[Size]

\* C8: a valid update(idx, v) changes the value of no node whose range does
\* not hold idx, changes no other field of any node, and keeps the node set
\* at the 2*size-1 nodes of construction.
C8_UpdateFrame ==
    [][\A idx \in UpdateArgs(Size), v \in Vals :
          (ValidIdx(idx) /\ SegmentTree_update(idx, v)) =>
              /\ root' = root
              /\ DOMAIN nodes' = DOMAIN nodes
              /\ Cardinality(DOMAIN nodes') = 2 * Size - 1
              /\ \A n \in DOMAIN nodes :
                    /\ [nodes'[n] EXCEPT !.value = 0] = [nodes[n] EXCEPT !.value = 0]
                    /\ ~Covers(nodes[n], idx) => nodes'[n].value = nodes[n].value]_vars

C8_Witness ==
    /\ BuiltOk /\ op = "update" /\ Size >= 3
    /\ Cardinality(DOMAIN nodes) = 2 * Size - 1
    /\ \E n \in DOMAIN nodes :
          ~IsLeaf(nodes[n]) /\ n # root /\ nodes[n].value # nodes[root].value

\* C9: a query on a valid range changes no node, and inorder() changes no
\* node field but inorder_pos, so every valid query answers after either
\* what it answered before.
C9_ReadOnly ==
    [][/\ \A s \in IdxArgs(Size), e \in IdxArgs(Size) :
             (ValidRange(s, e) /\ SegmentTree_query(s, e)) =>
                 (nodes' = nodes /\ root' = root)
       /\ SegmentTree_inorder =>
             /\ root' = root
             /\ DOMAIN nodes' = DOMAIN nodes
             /\ \A n \in DOMAIN nodes :
                   [nodes'[n] EXCEPT !.inorder_pos = None]
                       = [nodes[n] EXCEPT !.inorder_pos = None]
             /\ \A r \in Ranges :
                   query(nodes', r[1], r[2]) = query(nodes, r[1], r[2])]_vars

C9_Witness ==
    /\ BuiltOk /\ op = "inorder" /\ Size >= 2
    /\ \E n \in DOMAIN nodes : nodes[n].inorder_pos # nodes[n].value
    /\ \E n \in DOMAIN nodes : nodes[n].inorder_pos > MaxVal

\* C10: TreeNode.update from the root with any idx reaches a leaf without
\* following an absent child; idx < 0 overwrites leaf 0 and nothing else,
\* idx >= size overwrites leaf size-1 and nothing else, and every internal
\* node still holds the larger of its children's values.
C10_UnvalidatedUpdate ==
    [][\A idx \in UpdateArgs(Size), v \in Vals :
          SegmentTree_update(idx, v) =>
              /\ err' = NoError
              /\ Aggregated(nodes')
              /\ idx < 0 => LeafArray(nodes') = [LeafArray(nodes) EXCEPT ![1] = v]
              /\ idx >= Size =>
                    LeafArray(nodes') = [LeafArray(nodes) EXCEPT ![Size] = v]]_vars

C10_Witness ==
    /\ BuiltOk /\ op = "update" /\ A = <<>> /\ Size >= 3
    /\ LeafArray(nodes)[1] # LeafArray(nodes)[Size]
    /\ Aggregated(nodes)

====
